---- MODULE Spec2Model ----
(***************************************************************************)
(* Task Terminal: the task store (tt/infra/sqlite.py), the identifier      *)
(* generator (tt/core/ids.py), the task manager (tt/core/tasks.py), the    *)
(* GitHub scanner (tt/infra/github.py) and the screen handlers that drive  *)
(* them (tt/tui/screens).                                                  *)
(*                                                                         *)
(* Python strings are sequences of one-character strings, so formatting,  *)
(* parsing and regular-expression matching are computed character by       *)
(* character.                                                              *)
(***************************************************************************)
EXTENDS Integers, Sequences, FiniteSets, TLC

\* ------------------------------------------------------------------------
\* Bounds of the model
\* ------------------------------------------------------------------------
\* rows ever inserted into tasks (sqlite_sequence of tasks)
MaxTasks == 2
\* rows ever inserted into prs (sqlite_sequence of prs)
MaxPrs == 2
\* gh invocations that fail within one scan
MaxCliFaults == 1
\* invocations of create_task_with_id started by each concurrent caller
MaxCalls == 2

\* ------------------------------------------------------------------------
\* Python strings
\* ------------------------------------------------------------------------
DigitChars == <<"0", "1", "2", "3", "4", "5", "6", "7", "8", "9">>

IsDigit(c) == \E i \in 1..10 : DigitChars[i] = c

\* the value of a decimal digit
DigitVal(c) == (CHOOSE i \in 1..10 : DigitChars[i] = c) - 1

\* \w of Python's re: letters, digits and the underscore
IsWordChar(c) ==
    \/ IsDigit(c)
    \/ c \in {"a", "t", "T", "f", "x", "i", "m", "p", "o", "r", "_"}

\* case folding of re.IGNORECASE
Lower(c) == IF c = "T" THEN "t" ELSE c

\* str(n) for n >= 0
RECURSIVE Str(_)
Str(n) ==
    IF n < 10 THEN <<DigitChars[n + 1]>>
    ELSE Str(n \div 10) \o <<DigitChars[(n % 10) + 1]>>

\* int(s) for a string of decimal digits
RECURSIVE ParseInt(_)
ParseInt(s) ==
    IF Len(s) = 0 THEN 0
    ELSE 10 * ParseInt(SubSeq(s, 1, Len(s) - 1)) + DigitVal(s[Len(s)])

\* s.startswith(p)
StartsWith(s, p) == Len(s) >= Len(p) /\ SubSeq(s, 1, Len(p)) = p

\* s.replace(p, ""): removes every non-overlapping occurrence, left to right
RECURSIVE RemoveAll(_, _)
RemoveAll(s, p) ==
    IF Len(s) = 0 THEN <<>>
    ELSE IF StartsWith(s, p) THEN RemoveAll(SubSeq(s, Len(p) + 1, Len(s)), p)
    ELSE <<s[1]>> \o RemoveAll(SubSeq(s, 2, Len(s)), p)

\* s.split('-')[1]: the text between the first and the second '-'
RECURSIVE UpToDash(_)
UpToDash(s) ==
    IF Len(s) = 0 \/ s[1] = "-" THEN <<>>
    ELSE <<s[1]>> \o UpToDash(SubSeq(s, 2, Len(s)))

RECURSIVE AfterDash(_)
AfterDash(s) ==
    IF Len(s) = 0 THEN <<>>
    ELSE IF s[1] = "-" THEN SubSeq(s, 2, Len(s))
    ELSE AfterDash(SubSeq(s, 2, Len(s)))

SplitDash1(s) == UpToDash(AfterDash(s))

\* the literal prefix of the f-strings f"tt-{...}", f"import_{...}", f"pr_{...}"
TT == <<"t", "t", "-">>
IMPORT_ == <<"i", "m", "p", "o", "r", "t", "_">>
PR_ == <<"p", "r", "_">>

\* f"tt-{next_number}"
Code(n) == TT \o Str(n)

\* the numeric suffix of a task code
Num(code) == ParseInt(SplitDash1(code))

\* re.compile(re.escape(task_id), re.IGNORECASE).search(text)
Search(task_id, text) ==
    \E i \in 1..(Len(text) - Len(task_id) + 1) :
        \A j \in 1..Len(task_id) : Lower(text[i + j - 1]) = Lower(task_id[j])

\* the end of the longest run of digits of text that starts at position i
RECURSIVE DigitsEnd(_, _)
DigitsEnd(text, i) ==
    IF i <= Len(text) /\ IsDigit(text[i]) THEN DigitsEnd(text, i + 1) ELSE i

\* tt-(\d+) without the two \b: the match may start and end inside a word
MatchAtSubstring(text, i) ==
    /\ i + 3 <= Len(text)
    /\ Lower(text[i]) = "t" /\ Lower(text[i + 1]) = "t" /\ text[i + 2] = "-"
    /\ IsDigit(text[i + 3])

\* \btt-(\d+)\b matches at position i of text; the match ends before MatchEnd
MatchAt(text, i) ==
    /\ i + 3 <= Len(text)
    /\ i = 1 \/ ~IsWordChar(text[i - 1])
    /\ Lower(text[i]) = "t" /\ Lower(text[i + 1]) = "t" /\ text[i + 2] = "-"
    /\ IsDigit(text[i + 3])
    /\ LET e == DigitsEnd(text, i + 3)
       IN e > Len(text) \/ ~IsWordChar(text[e])

\* re.compile(r'\btt-(\d+)\b', re.IGNORECASE).findall(text), scanning from i
RECURSIVE FindAllFrom(_, _)
FindAllFrom(text, i) ==
    IF i > Len(text) THEN <<>>
    ELSE IF MatchAt(text, i)
         THEN LET e == DigitsEnd(text, i + 3)
              IN <<SubSeq(text, i + 3, e - 1)>> \o FindAllFrom(text, e)
         ELSE FindAllFrom(text, i + 1)

FindAll(text) == FindAllFrom(text, 1)

\* ------------------------------------------------------------------------
\* tt/infra/sqlite.py: Database
\* ------------------------------------------------------------------------
\* Python's None where a number, a text or a row is expected
NoneNum == 0 - 1
NoneText == <<"None">>

\* the exceptions the model distinguishes; NoError is a normal return
NoError == "none"
IntegrityError == "sqlite3.IntegrityError"
AttributeError == "AttributeError"
DuplicateKey == "textual.DuplicateKey"

\* the schema of _init_db on a new file: both tables empty, no row id handed
\* out yet (AUTOINCREMENT keeps the largest row id ever used per table in
\* sqlite_sequence and never hands it out again)
EmptyDb ==
    [tasks |-> {}, prs |-> {}, sqlite_sequence |-> [tasks |-> 0, prs |-> 0]]

\* the greatest element of a non-empty set of numbers
Max(S) == CHOOSE m \in S : \A x \in S : x <= m

\* SELECT ... FROM tasks WHERE code = ?
TaskRows(D, code) == {t \in D.tasks : t.code = code}

\* create_task as INSERT OR REPLACE: the row that holds the code is replaced
create_task_or_replace(D, code, now) ==
    LET task_id == D.sqlite_sequence.tasks + 1
        row == [id |-> task_id, code |-> code, status |-> "open",
                created_at |-> now]
    IN [db |-> [D EXCEPT !.tasks = {t \in @ : t.code # code} \cup {row},
                         !.sqlite_sequence.tasks = task_id],
        raised |-> NoError,
        ret |-> task_id]

\* create_task as INSERT OR IGNORE: the insert of a code that is present
\* writes nothing and does not raise
create_task_or_ignore(D, code, now) ==
    IF TaskRows(D, code) # {}
    THEN [db |-> D, raised |-> NoError, ret |-> NoneNum]
    ELSE create_task_or_replace(D, code, now)

\* INSERT INTO tasks (code, status, created_at) VALUES (?, 'open', ?)
\* code is UNIQUE: the insert of a code that is present raises and writes
\* nothing
create_task(D, code, now) ==
    IF TaskRows(D, code) # {}
    THEN [db |-> D, raised |-> IntegrityError, ret |-> NoneNum]
    ELSE LET task_id == D.sqlite_sequence.tasks + 1
             row == [id |-> task_id, code |-> code, status |-> "open",
                     created_at |-> now]
         IN [db |-> [D EXCEPT !.tasks = @ \cup {row},
                              !.sqlite_sequence.tasks = task_id],
             raised |-> NoError,
             ret |-> task_id]

\* get_next_task_number without the increment
get_next_task_number_no_increment(D) ==
    IF D.tasks = {} THEN 0 ELSE Max({t.id : t \in D.tasks})

\* SELECT MAX(id) FROM tasks, over the rows that are in the table now
get_next_task_number(D) ==
    LET max_id == IF D.tasks = {} THEN 0 ELSE Max({t.id : t \in D.tasks})
    IN max_id + 1

\* the rows of tasks LEFT JOIN prs ON t.code = p.task_code
JoinedRows(D) ==
    {[id |-> t.id, code |-> t.code, status |-> t.status,
      created_at |-> t.created_at, pr_id |-> p.id,
      pr_number |-> p.pr_number, pr_title |-> p.title, pr_body |-> p.body] :
        <<t, p>> \in {tp \in D.tasks \X D.prs : tp[1].code = tp[2].task_code}}
    \cup
    {[id |-> t.id, code |-> t.code, status |-> t.status,
      created_at |-> t.created_at, pr_id |-> NoneNum,
      pr_number |-> NoneNum, pr_title |-> NoneText, pr_body |-> NoneText] :
        t \in {u \in D.tasks : \A p \in D.prs : p.task_code # u.code}}

\* ORDER BY t.id DESC; the rows of one task in the order of prs
RECURSIVE OrderedRows(_)
OrderedRows(S) ==
    IF S = {} THEN <<>>
    ELSE LET first == CHOOSE r \in S : \A q \in S :
                          \/ r.id > q.id
                          \/ r.id = q.id /\ r.pr_id <= q.pr_id
         IN <<first>> \o OrderedRows(S \ {first})

get_all_tasks(D) == OrderedRows(JoinedRows(D))

\* the row of the task, or no row
get_task_by_code(D, code) == TaskRows(D, code)

\* create_pr without the UPDATE of the task's status
create_pr_without_update(D, task_code, repo, pr_number, title, body, now) ==
    LET pr_id == D.sqlite_sequence.prs + 1
        row == [id |-> pr_id, task_code |-> task_code, repo |-> repo,
                pr_number |-> pr_number, title |-> title, body |-> body,
                created_at |-> now]
    IN [db |-> [D EXCEPT !.prs = @ \cup {row}, !.sqlite_sequence.prs = pr_id],
        raised |-> NoError,
        ret |-> pr_id]

\* create_pr whose UPDATE has no WHERE: the task of the PR becomes 'linked'
\* and every other task 'open'
create_pr_reopens_others(D, task_code, repo, pr_number, title, body, now) ==
    LET r == create_pr_without_update(D, task_code, repo, pr_number, title,
                                      body, now)
    IN [r EXCEPT !.db.tasks =
            {[t EXCEPT !.status = IF t.code = task_code THEN "linked" ELSE "open"] :
                t \in @}]

\* INSERT INTO prs ...; UPDATE tasks SET status = 'linked' WHERE code = ?
\* in one transaction.  _get_connection never turns foreign_keys on, so the
\* FOREIGN KEY clause of prs is not enforced and the insert succeeds for any
\* task_code; the UPDATE then changes the rows it finds, possibly none.
create_pr(D, task_code, repo, pr_number, title, body, now) ==
    LET pr_id == D.sqlite_sequence.prs + 1
        row == [id |-> pr_id, task_code |-> task_code, repo |-> repo,
                pr_number |-> pr_number, title |-> title, body |-> body,
                created_at |-> now]
    IN [db |-> [D EXCEPT
                  !.prs = @ \cup {row},
                  !.sqlite_sequence.prs = pr_id,
                  !.tasks = {IF t.code = task_code
                             THEN [t EXCEPT !.status = "linked"] ELSE t :
                             t \in @}],
        raised |-> NoError,
        ret |-> pr_id]

\* SELECT ... FROM prs WHERE task_code = ?
get_prs_for_task(D, task_code) == {p \in D.prs : p.task_code = task_code}

\* delete_task without the DELETE FROM prs
delete_task_keeps_prs(D, code) ==
    IF TaskRows(D, code) = {}
    THEN [db |-> D, raised |-> NoError, ret |-> FALSE]
    ELSE [db |-> [D EXCEPT !.tasks = {t \in @ : t.code # code}],
          raised |-> NoError,
          ret |-> TRUE]

\* delete_task with DELETE FROM prs without its WHERE: every PR row goes
delete_task_clearing_prs(D, code) ==
    IF TaskRows(D, code) = {}
    THEN [db |-> D, raised |-> NoError, ret |-> FALSE]
    ELSE [db |-> [D EXCEPT !.prs = {},
                           !.tasks = {t \in @ : t.code # code}],
          raised |-> NoError,
          ret |-> TRUE]

\* delete_task without the check that the task exists: the two DELETEs run
\* for any code
delete_task_unchecked(D, code) ==
    [db |-> [D EXCEPT !.prs = {p \in @ : p.task_code # code},
                      !.tasks = {t \in @ : t.code # code}],
     raised |-> NoError,
     ret |-> TaskRows(D, code) # {}]

\* DELETE FROM prs WHERE task_code = ?; DELETE FROM tasks WHERE code = ?
\* in one transaction, or nothing and False when the task is absent
delete_task(D, code) ==
    IF TaskRows(D, code) = {}
    THEN [db |-> D, raised |-> NoError, ret |-> FALSE]
    ELSE [db |-> [D EXCEPT !.prs = {p \in @ : p.task_code # code},
                           !.tasks = {t \in @ : t.code # code}],
          raised |-> NoError,
          ret |-> TRUE]

\* ------------------------------------------------------------------------
\* tt/core/ids.py: IDGenerator
\* ------------------------------------------------------------------------
generate_next_id(D) == Code(get_next_task_number(D))

\* generate_next_id, then create_task; an exception of create_task propagates
create_task_with_id(D, now) ==
    LET task_id == generate_next_id(D)
        r == create_task(D, task_id, now)
    IN [db |-> r.db, raised |-> r.raised, ret |-> task_id]

\* ------------------------------------------------------------------------
\* tt/core/tasks.py: TaskManager
\* ------------------------------------------------------------------------
link_pr_to_task(D, task_code, repo, pr_number, title, body, now) ==
    create_pr(D, task_code, repo, pr_number, title, body, now)

\* ------------------------------------------------------------------------
\* tt/infra/github.py: GitHubIntegration
\* ------------------------------------------------------------------------
\* --limit 100 of gh pr list
PageLimit == 100

\* the output of gh repo view when it succeeds
RepoName == <<"o", "/", "r">>

\* what one gh invocation can do: print its output, fail (no executable or a
\* non-zero exit, which _run_gh_command turns into None), or print text that
\* is not JSON
CliOk == "ok"
CliFail == "fail"
CliMalformed == "malformed"

\* what subprocess.run(["gh"] + args, check=True) can do: raise
\* FileNotFoundError (no gh executable), raise CalledProcessError (a non-zero
\* exit), or return what gh printed, which is the expected output or, where
\* JSON is expected, text that is not JSON
FileNotFoundError == "FileNotFoundError"
CalledProcessError == "subprocess.CalledProcessError"
Printed == "printed"
PrintedNoJson == "printed text that is not JSON"
GhResults == {FileNotFoundError, CalledProcessError, PrintedNoJson, Printed}

\* _run_gh_command with except subprocess.CalledProcessError only: a missing
\* executable escapes
run_gh_command_catching_exit_only(result) ==
    [raised |-> IF result = FileNotFoundError THEN result ELSE NoError,
     out |-> IF result = Printed THEN CliOk
             ELSE IF result = PrintedNoJson THEN CliMalformed ELSE CliFail]

\* _run_gh_command: the two exceptions of subprocess.run are caught and turned
\* into None, the text gh printed is returned
run_gh_command(result) ==
    [raised |-> NoError,
     out |-> IF result = Printed THEN CliOk
             ELSE IF result = PrintedNoJson THEN CliMalformed ELSE CliFail]

\* the gh invocations of one scan over n open task codes, numbered: the
\* n calls of find_prs_with_task_id, then auth status, the repo view of
\* find_unlinked_prs, the repo view of find_all_task_ids_in_repo and its
\* pr list
CliCalls(n) == 1..(n + 4)

\* the outcomes of the gh invocations of one scan, by the call that makes
\* them; lists[i] is the outcome of the i-th call of find_prs_with_task_id.
\* At most MaxCliFaults invocations do not succeed; only the output of a
\* pr list is parsed as JSON.  An invocation the pass does not reach has no
\* outcome: nothing follows a failed auth status, no pr list follows the
\* failed repo view of its method.
CliOutcomes(n) ==
    LET Parsed == (1..n) \cup {n + 4}
        Reached(S) ==
            /\ (n + 1) \in S => S = {n + 1}
            /\ (n + 2) \in S => S \cap (1..n) = {}
            /\ (n + 3) \in S => (n + 4) \notin S
        Failing == {S \in SUBSET CliCalls(n) :
                       Cardinality(S) <= MaxCliFaults /\ Reached(S)}
        Faults == UNION {{f \in [S -> {CliFail, CliMalformed}] :
                            \A c \in S : f[c] = CliMalformed => c \in Parsed} :
                         S \in Failing}
        Out(f, c) == IF c \in DOMAIN f THEN f[c] ELSE CliOk
    IN {[auth |-> Out(f, n + 1),
         repo_unlinked |-> Out(f, n + 2),
         lists |-> [i \in 1..n |-> Out(f, i)],
         repo_all |-> Out(f, n + 3),
         list_all |-> Out(f, n + 4)] : f \in Faults}

\* gh auth status
is_gh_available(out) == out = CliOk

\* gh repo view --json nameWithOwner
get_current_repo(out) == IF out = CliOk THEN RepoName ELSE NoneText

\* ------------------------------------------------------------------------
\* The remote pull requests of the repository
\* ------------------------------------------------------------------------
PrFoo ==
    [number |-> 5, state |-> "open", body |-> <<"x">>,
     headRefName |-> <<"f", "/", "t", "t", "-", "1", "-", "x">>,
     title |-> <<"f", "i", "x">>]
PrTwo ==
    [number |-> 7, state |-> "open", body |-> <<>>,
     headRefName |-> <<"x">>,
     title |-> <<"t", "t", "-", "2", " ", "t", "t", "-", "1", "0">>]
PrMerged ==
    [number |-> 8, state |-> "closed", body |-> <<>>,
     headRefName |-> <<"T", "T", "-", "2">>,
     title |-> <<"x">>]

PrGlued ==
    [number |-> 9, state |-> "open", body |-> <<>>,
     headRefName |-> <<"a", "t", "t", "-", "1">>,
     title |-> <<"t", "t", "-", "1", "a">>]

PrTen ==
    [number |-> 6, state |-> "open", body |-> <<>>,
     headRefName |-> <<"t", "t", "-", "1", "0">>,
     title |-> <<"T", "T", "-", "2", " ", "t", "t", "-", "1">>]

\* the listings gh can print, in the order gh prints them
Listings == {<<>>, <<PrFoo>>, <<PrTwo, PrMerged>>}

\* the first n elements of a sequence
Take(s, n) == SubSeq(s, 1, IF Len(s) < n THEN Len(s) ELSE n)

\* the PRs gh pr list prints: the open ones, or all with --state all
IsOpen(pr) == pr.state = "open"
PrList(listing, state_all) ==
    Take(IF state_all THEN listing ELSE SelectSeq(listing, IsOpen), PageLimit)

\* the PRs of the listing whose branch or title contains task_id
find_prs_with_task_id(listing, task_id, repo, out) ==
    IF repo = NoneText \/ out # CliOk THEN <<>>
    ELSE LET prs == PrList(listing, FALSE)
             Hit(pr) == Search(task_id, pr.headRefName) \/ Search(task_id, pr.title)
             matching == SelectSeq(prs, Hit)
         IN [i \in 1..Len(matching) |->
                [number |-> matching[i].number, title |-> matching[i].title,
                 body |-> matching[i].body, branch |-> matching[i].headRefName]]

\* gh pr view of pr_number: the PR of that number, open or not, or None; gh
\* pr view of a number the repository does not have exits non-zero
HasNumber(listing, pr_number) ==
    {i \in 1..Len(listing) : listing[i].number = pr_number}
get_pr_details(listing, pr_number, repo, out) ==
    IF repo = NoneText \/ out # CliOk THEN {}
    ELSE {[number |-> listing[i].number, title |-> listing[i].title,
           body |-> listing[i].body, branch |-> listing[i].headRefName] :
          i \in HasNumber(listing, pr_number)}

\* the entries find_unlinked_prs appends for the codes from position i on
RECURSIVE UnlinkedFrom(_, _, _, _, _)
UnlinkedFrom(listing, codes, repo, outs, i) ==
    IF i > Len(codes) THEN <<>>
    ELSE LET prs == find_prs_with_task_id(listing, codes[i], repo, outs[i])
         IN [k \in 1..Len(prs) |->
                [task_code |-> codes[i], pr_number |-> prs[k].number,
                 title |-> prs[k].title, body |-> prs[k].body,
                 branch |-> prs[k].branch, repo |-> repo]]
            \o UnlinkedFrom(listing, codes, repo, outs, i + 1)

find_unlinked_prs(listing, existing_task_codes, cli) ==
    LET repo == get_current_repo(cli.repo_unlinked)
    IN IF repo = NoneText THEN <<>>
       ELSE UnlinkedFrom(listing, existing_task_codes, repo, cli.lists, 1)

\* found_tasks without the test "task_id not in found_tasks": the entry of a
\* task id that is present is overwritten in place, the last PR wins
RECURSIVE AddMatchesLastWins(_, _, _, _)
AddMatchesLastWins(found, matches, pr, repo) ==
    IF Len(matches) = 0 THEN found
    ELSE LET task_id == TT \o matches[1]
             seen == \E k \in 1..Len(found) : found[k].task_id = task_id
             entry == [task_id |-> task_id, pr_number |-> pr.number,
                       title |-> pr.title, body |-> pr.body,
                       branch |-> pr.headRefName, repo |-> repo]
         IN AddMatchesLastWins(
                IF seen
                THEN [k \in 1..Len(found) |->
                         IF found[k].task_id = task_id THEN entry ELSE found[k]]
                ELSE Append(found, entry),
                SubSeq(matches, 2, Len(matches)), pr, repo)

\* found_tasks after the matches of one text: a new task id is appended, one
\* that is present keeps its first entry
RECURSIVE AddMatches(_, _, _, _)
AddMatches(found, matches, pr, repo) ==
    IF Len(matches) = 0 THEN found
    ELSE LET task_id == TT \o matches[1]
             seen == \E k \in 1..Len(found) : found[k].task_id = task_id
             entry == [task_id |-> task_id, pr_number |-> pr.number,
                       title |-> pr.title, body |-> pr.body,
                       branch |-> pr.headRefName, repo |-> repo]
         IN AddMatches(IF seen THEN found ELSE Append(found, entry),
                       SubSeq(matches, 2, Len(matches)), pr, repo)

\* found_tasks after the PRs from position i on: branch first, then title
RECURSIVE ScanPrs(_, _, _, _)
ScanPrs(found, prs, repo, i) ==
    IF i > Len(prs) THEN found
    ELSE LET branch == AddMatches(found, FindAll(prs[i].headRefName), prs[i], repo)
             title == AddMatches(branch, FindAll(prs[i].title), prs[i], repo)
         IN ScanPrs(title, prs, repo, i + 1)

\* sorted(..., key=lambda x: int(x["task_id"].split('-')[1])): stable
RECURSIVE SortedById(_)
SortedById(s) ==
    IF Len(s) = 0 THEN <<>>
    ELSE LET Key(k) == ParseInt(SplitDash1(s[k].task_id))
             m == CHOOSE k \in 1..Len(s) :
                     /\ \A j \in 1..Len(s) : Key(k) <= Key(j)
                     /\ \A j \in 1..(k - 1) : Key(j) # Key(k)
         IN <<s[m]>> \o SortedById(SubSeq(s, 1, m - 1) \o SubSeq(s, m + 1, Len(s)))

\* found_tasks after the loop over the PRs of pr list --state all, sorted
found_tasks(listing, repo) ==
    SortedById(ScanPrs(<<>>, PrList(listing, TRUE), repo, 1))

\* found_tasks of each listing of Listings, computed once: gh repo view
\* prints RepoName whenever it prints
FoundTasks == [listing \in Listings |-> found_tasks(listing, RepoName)]

find_all_task_ids_in_repo(listing, cli) ==
    LET repo == get_current_repo(cli.repo_all)
    IN IF repo = NoneText THEN <<>>
       ELSE IF cli.list_all # CliOk THEN SortedById(<<>>)
       ELSE IF listing \in Listings THEN FoundTasks[listing]
       ELSE found_tasks(listing, repo)

\* ------------------------------------------------------------------------
\* tt/tui/screens/pr_inbox.py: PRInboxScreen
\* ------------------------------------------------------------------------
\* the row keys update_pr_table gives to the rows of the two lists
ImportKeys(unimported) ==
    [i \in 1..Len(unimported) |-> IMPORT_ \o unimported[i].task_id]
LinkKeys(unlinked) ==
    [i \in 1..Len(unlinked) |-> PR_ \o Str(unlinked[i].pr_number)]

\* DataTable.add_row for the keys from position i on: a key that the table
\* holds already raises DuplicateKey and the rows added so far stay
RECURSIVE AddRows(_, _, _)
AddRows(rows, keys, i) ==
    IF i > Len(keys) THEN [rows |-> rows, raised |-> NoError]
    ELSE IF \E k \in 1..Len(rows) : rows[k] = keys[i]
         THEN [rows |-> rows, raised |-> DuplicateKey]
         ELSE AddRows(Append(rows, keys[i]), keys, i + 1)

\* the table is cleared, the Import rows come first, then the Link rows; with
\* both lists empty a single row without a key says "All synced"
update_pr_table(unimported, unlinked) ==
    LET r == AddRows(<<>>, ImportKeys(unimported) \o LinkKeys(unlinked), 1)
    IN IF r.raised = NoError /\ Len(unimported) = 0 /\ Len(unlinked) = 0
       THEN [rows |-> <<NoneText>>, raised |-> NoError]
       ELSE r

\* open_task_codes without the test of the status
all_task_codes(D) ==
    LET rows == get_all_tasks(D) IN [i \in 1..Len(rows) |-> rows[i].code]

\* existing_codes with the test of the status: the codes of the open tasks
existing_open_codes(D) == {t.code : t \in {u \in D.tasks : u.status = "open"}}

\* the codes of the rows of get_all_tasks whose status is 'open'
RECURSIVE OpenCodes(_, _)
OpenCodes(rows, i) ==
    IF i > Len(rows) THEN <<>>
    ELSE (IF rows[i].status = "open" THEN <<rows[i].code>> ELSE <<>>)
         \o OpenCodes(rows, i + 1)

open_task_codes(D) == OpenCodes(get_all_tasks(D), 1)

existing_codes(D) ==
    LET rows == get_all_tasks(D) IN {rows[i].code : i \in 1..Len(rows)}

\* the messages of the status line
StatusNone == ""
StatusUnavailable == "GitHub CLI (gh) is not available"
StatusAllSynced == "All synced!"
StatusFound == "Found item(s) to link/import"
StatusNoTaskInfo == "Task info not found"
StatusNoPr == "Could not find PR"
StatusErrorImporting == "Error importing"
StatusError == "Error"
StatusIgnored == "Ignored (session only)"

\* the gh invocations one pass of scan_for_prs makes over n open task codes,
\* in order: auth status; then, when it succeeded, the repo view of
\* find_unlinked_prs and one pr list per code when a repo came back, the repo
\* view of find_all_task_ids_in_repo and its pr list when a repo came back
GhAuthStatus == "auth status"
GhRepoView == "repo view"
GhPrList == "pr list"
GhPrListAll == "pr list --state all"
gh_calls(n, cli) ==
    <<GhAuthStatus>> \o
    (IF ~is_gh_available(cli.auth) THEN <<>>
     ELSE <<GhRepoView>>
          \o (IF get_current_repo(cli.repo_unlinked) = NoneText THEN <<>>
              ELSE [i \in 1..n |-> GhPrList])
          \o <<GhRepoView>>
          \o (IF get_current_repo(cli.repo_all) = NoneText THEN <<>>
              ELSE <<GhPrListAll>>))

\* scan_for_prs without the check of is_gh_available
scan_for_prs_without_check(D, listing, cli) ==
    LET codes == existing_codes(D)
        open == open_task_codes(D)
        unlinked == find_unlinked_prs(listing, open, cli)
        all_ids_in_repo == find_all_task_ids_in_repo(listing, cli)
        NotLocal(task_info) == task_info.task_id \notin codes
        unimported == SelectSeq(all_ids_in_repo, NotLocal)
        total_items == Len(unlinked) + Len(unimported)
        t == update_pr_table(unimported, unlinked)
    IN [unlinked_prs |-> unlinked, unimported_ids |-> unimported,
        status |-> IF total_items = 0 THEN StatusAllSynced ELSE StatusFound,
        rows |-> t.rows, raised |-> t.raised,
        all_ids_in_repo |-> all_ids_in_repo,
        calls |-> gh_calls(Len(open), cli)]

\* scan_for_prs with total_items taken from the table after update_pr_table:
\* the "All synced" row is counted as an item
scan_for_prs_counting_rows(D, listing, cli) ==
    IF ~is_gh_available(cli.auth)
    THEN LET t == update_pr_table(<<>>, <<>>)
         IN [unlinked_prs |-> <<>>, unimported_ids |-> <<>>,
             status |-> StatusUnavailable, rows |-> t.rows, raised |-> t.raised,
             all_ids_in_repo |-> <<>>, calls |-> gh_calls(0, cli)]
    ELSE LET r == scan_for_prs_without_check(D, listing, cli)
         IN [r EXCEPT !.status = IF Len(r.rows) = 0 THEN StatusAllSynced
                                 ELSE StatusFound]

\* one pass of scan_for_prs over the store D and the remote listing, with
\* the gh outcomes cli: the two lists, the status line and the table, with
\* what find_all_task_ids_in_repo returned and the gh invocations made
scan_for_prs(D, listing, cli) ==
    IF ~is_gh_available(cli.auth)
    THEN LET t == update_pr_table(<<>>, <<>>)
         IN [unlinked_prs |-> <<>>, unimported_ids |-> <<>>,
             status |-> StatusUnavailable, rows |-> t.rows, raised |-> t.raised,
             all_ids_in_repo |-> <<>>, calls |-> gh_calls(0, cli)]
    ELSE LET codes == existing_codes(D)
             open == open_task_codes(D)
             unlinked == find_unlinked_prs(listing, open, cli)
             all_ids_in_repo == find_all_task_ids_in_repo(listing, cli)
             NotLocal(task_info) == task_info.task_id \notin codes
             unimported == SelectSeq(all_ids_in_repo, NotLocal)
             total_items == Len(unlinked) + Len(unimported)
             t == update_pr_table(unimported, unlinked)
         IN [unlinked_prs |-> unlinked, unimported_ids |-> unimported,
             status |-> IF total_items = 0 THEN StatusAllSynced ELSE StatusFound,
             rows |-> t.rows, raised |-> t.raised,
             all_ids_in_repo |-> all_ids_in_repo,
             calls |-> gh_calls(Len(open), cli)]

\* a loop without its break: it ends with the last of the entries that pass
\* its test
LastHit(hits) ==
    IF Len(hits) = 0 THEN <<>> ELSE <<hits[Len(hits)]>>

\* the entry a `for ... break` loop stops at: the first of the entries that
\* pass its test (hits), as a sequence of 0 or 1
First(hits) ==
    Take(hits, 1)

\* `if task_info["pr_number"]` taken as never true
never_truthy(n) == FALSE

\* `if task_info["pr_number"]`
Truthy(n) == n # NoneNum /\ n # 0

\* ------------------------------------------------------------------------
\* tt/tui/screens/tasks.py: TasksScreen
\* ------------------------------------------------------------------------
\* load_tasks: one row per row of get_all_tasks, keyed by the task code; with
\* no task a single row without a key says "No tasks yet"
load_tasks(D) ==
    LET tasks == get_all_tasks(D)
        r == AddRows(<<>>, [i \in 1..Len(tasks) |-> tasks[i].code], 1)
    IN IF r.raised = NoError /\ Len(tasks) = 0
       THEN [rows |-> <<NoneText>>, raised |-> NoError]
       ELSE r

\* ------------------------------------------------------------------------
\* State
\* ------------------------------------------------------------------------
VARIABLES
    db,             \* the SQLite file: tasks, prs, sqlite_sequence
    clock,          \* datetime.now()
    remote,         \* the pull requests of the repository, as gh lists them
    app,            \* "running", or the exception that ended the application
    unlinked_prs,   \* PRInboxScreen.unlinked_prs
    unimported_ids, \* PRInboxScreen.unimported_ids
    pr_table,       \* the row keys of PRInboxScreen's DataTable
    status,         \* PRInboxScreen's status line
    tasks_table,    \* the row keys of TasksScreen's DataTable
    gen,            \* the create_task_with_id invocations of concurrent callers
    last,           \* the store calls of the handler that last called the store
    ran,            \* the inbox handler that ran last and its sync pass
    called,         \* the GitHubIntegration method called last, if called directly
    log             \* the tasks created and deleted so far, in order

store == <<db, clock>>
inbox == <<unlinked_prs, unimported_ids, pr_table, status>>
screens == <<app, unlinked_prs, unimported_ids, pr_table, status, tasks_table>>
vars == <<db, clock, remote, app, unlinked_prs, unimported_ids, pr_table,
          status, tasks_table, gen, last, ran, called, log>>

\* the concurrent callers of create_task_with_id
Procs == {1, 2}

\* one store call of a handler: what was called, on which store, the result
Call(op, code, pr_number, pre, r) ==
    [op |-> op, code |-> code, pr_number |-> pr_number, pre |-> pre,
     post |-> r.db, raised |-> r.raised, ret |-> r.ret]

\* every gh invocation of the pass printed its output
CliAllOk(cli) ==
    /\ cli.auth = CliOk /\ cli.repo_unlinked = CliOk /\ cli.repo_all = CliOk
    /\ cli.list_all = CliOk
    /\ \A i \in DOMAIN cli.lists : cli.lists[i] = CliOk

\* one sync pass: the store it read, whether gh auth status succeeded and
\* whether every gh invocation did, the gh invocations it made, what the
\* repo-wide scan returned, whether the two lists held an item before it,
\* what it raised
Pass(D, cli, sc) ==
    [db |-> D,
     available |-> is_gh_available(cli.auth),
     all_ok |-> CliAllOk(cli),
     calls |-> sc.calls,
     all_ids_in_repo |-> sc.all_ids_in_repo,
     before |-> Len(unlinked_prs) + Len(unimported_ids) > 0,
     raised |-> sc.raised]

\* what row i of the table shows: the rows are added in the order of the
\* two lists, the Import rows first, so row i shows the i-th entry; shared
\* says that unlinked_prs holds the PR number of a Link row for another task
\* code as well
NoItem ==
    [kind |-> "none", task_id |-> NoneText, pr_number |-> NoneNum,
     shared |-> FALSE]
RowItem(i) ==
    IF i <= Len(unimported_ids)
    THEN [kind |-> "import",
          task_id |-> unimported_ids[i].task_id,
          pr_number |-> unimported_ids[i].pr_number,
          shared |-> FALSE]
    ELSE LET pr == unlinked_prs[i - Len(unimported_ids)]
         IN [kind |-> "link",
             task_id |-> pr.task_code,
             pr_number |-> pr.pr_number,
             shared |-> \E k \in 1..Len(unlinked_prs) :
                           /\ unlinked_prs[k].pr_number = pr.pr_number
                           /\ unlinked_prs[k].task_code # pr.task_code]

\* what an inbox handler did: its name, what the selected row showed,
\* whether it found the entry of the row in its list, and the sync pass it
\* ran, if any
Ran(handler, item, found, pass) ==
    <<[handler |-> handler, item |-> item, found |-> found, pass |-> pass]>>

Init ==
    /\ db = EmptyDb
    /\ clock = 0
    /\ remote \in Listings
    /\ app = "running"
    /\ unlinked_prs = <<>>
    /\ unimported_ids = <<>>
    /\ pr_table = <<>>
    /\ status = StatusNone
    /\ tasks_table = <<>>
    /\ gen = [p \in Procs |-> [pc |-> "idle", task_id |-> NoneText,
                               started |-> 0, returned |-> <<>>]]
    /\ last = <<>>
    /\ ran = <<>>
    /\ called = <<>>
    /\ log = <<>>

\* an exception no handler catches ends the application: the screens and
\* their lists are gone, the SQLite file stays
Crash(exception) ==
    /\ app' = exception
    /\ unlinked_prs' = <<>>
    /\ unimported_ids' = <<>>
    /\ pr_table' = <<>>
    /\ status' = StatusNone
    /\ tasks_table' = <<>>

\* tt.main: the application is started again
Launch ==
    /\ app # "running"
    /\ app' = "running"
    /\ ran' = <<>>
    /\ UNCHANGED <<store, remote, called, inbox, tasks_table, gen, last, log>>

\* at most MaxPrs PR rows and at most MaxTasks task rows are ever inserted
LinksWithinBounds(D) == D.sqlite_sequence.prs <= MaxPrs
WithinBounds(D) ==
    /\ D.sqlite_sequence.tasks <= MaxTasks
    /\ LinksWithinBounds(D)

\* ------------------------------------------------------------------------
\* CreateTaskScreen.action_generate
\* ------------------------------------------------------------------------
Generate ==
    /\ app = "running"
    /\ LET r == create_task_with_id(db, clock)
       IN /\ WithinBounds(r.db)
          /\ db' = r.db
          /\ last' = <<Call("create_task_with_id", r.ret, NoneNum, db, r)>>
          /\ IF r.raised = NoError
             THEN /\ clock' = clock + 1
                  /\ log' = Append(log, [op |-> "generated", code |-> r.ret])
                  /\ UNCHANGED screens
             ELSE /\ Crash(r.raised)
                  /\ UNCHANGED <<clock, log>>
    /\ ran' = <<>>
    /\ UNCHANGED <<remote, called, gen>>

\* ------------------------------------------------------------------------
\* PRInboxScreen handlers
\* ------------------------------------------------------------------------
\* the lists, the table and the status line after a scan that returned
ShowScan(sc, status_on_error) ==
    /\ unlinked_prs' = sc.unlinked_prs
    /\ unimported_ids' = sc.unimported_ids
    /\ pr_table' = sc.rows
    /\ status' = IF sc.raised = NoError THEN sc.status ELSE status_on_error

\* on_mount and action_refresh: scan_for_prs, outside any try
Refresh ==
    /\ app = "running"
    /\ \E cli \in CliOutcomes(Len(open_task_codes(db))) :
         LET sc == scan_for_prs(db, remote, cli)
         IN /\ ran' = Ran("refresh", NoItem, FALSE, <<Pass(db, cli, sc)>>)
            /\ IF sc.raised = NoError
               THEN ShowScan(sc, StatusNone) /\ UNCHANGED <<app, tasks_table>>
               ELSE Crash(sc.raised)
    /\ UNCHANGED <<store, remote, called, gen, last, log>>

\* action_link_import or action_ignore on the "All synced" row: the row has no
\* key, key_str is None and key_str.startswith raises
NoKeySelected(i) ==
    /\ app = "running"
    /\ i \in 1..Len(pr_table)
    /\ pr_table[i] = NoneText
    /\ Crash(AttributeError)
    /\ ran' = <<>>
    /\ UNCHANGED <<store, remote, called, gen, last, log>>

\* action_link_import on an Import row
Import(i) ==
    /\ app = "running"
    /\ i \in 1..Len(pr_table)
    /\ pr_table[i] # NoneText
    /\ StartsWith(pr_table[i], IMPORT_)
    /\ LET task_id == RemoveAll(pr_table[i], IMPORT_)
           Named(info) == info.task_id = task_id
           found == First(SelectSeq(unimported_ids, Named))
       IN IF Len(found) = 0
          THEN /\ status' = StatusNoTaskInfo
               /\ ran' = Ran("import", RowItem(i), FALSE, <<>>)
               /\ UNCHANGED <<store, unlinked_prs, unimported_ids, pr_table,
                              last, log>>
          ELSE LET task_info == found[1]
                   r1 == create_task(db, task_id, clock)
                   c1 == Call("create_task", task_id, NoneNum, db, r1)
               IN IF r1.raised # NoError
                  THEN /\ status' = StatusErrorImporting
                       /\ last' = <<c1>>
                       /\ ran' = Ran("import", RowItem(i), TRUE, <<>>)
                       /\ UNCHANGED <<store, unlinked_prs, unimported_ids,
                                      pr_table, log>>
                  ELSE LET with_pr == Truthy(task_info.pr_number)
                           r2 == link_pr_to_task(r1.db, task_id, task_info.repo,
                                     task_info.pr_number, task_info.title,
                                     task_info.body, clock + 1)
                           c2 == Call("create_pr", task_id, task_info.pr_number,
                                      r1.db, r2)
                           D == IF with_pr THEN r2.db ELSE r1.db
                       IN /\ WithinBounds(D)
                          /\ db' = D
                          /\ clock' = clock + (IF with_pr THEN 2 ELSE 1)
                          /\ log' = Append(log, [op |-> "imported", code |-> task_id])
                          /\ last' = IF with_pr THEN <<c1, c2>> ELSE <<c1>>
                          /\ \E cli \in CliOutcomes(Len(open_task_codes(D))) :
                               LET sc == scan_for_prs(D, remote, cli)
                               IN /\ ShowScan(sc, StatusErrorImporting)
                                  /\ ran' = Ran("import", RowItem(i), TRUE, <<Pass(D, cli, sc)>>)
    /\ UNCHANGED <<remote, called, app, tasks_table, gen>>

\* action_link_import on a Link row
Link(i) ==
    /\ app = "running"
    /\ i \in 1..Len(pr_table)
    /\ pr_table[i] # NoneText
    /\ ~StartsWith(pr_table[i], IMPORT_)
    /\ StartsWith(pr_table[i], PR_)
    /\ LET pr_number == RemoveAll(pr_table[i], PR_)
           Numbered(pr) == Str(pr.pr_number) = pr_number
           found == First(SelectSeq(unlinked_prs, Numbered))
       IN IF Len(found) = 0
          THEN /\ status' = StatusNoPr
               /\ ran' = Ran("link", RowItem(i), FALSE, <<>>)
               /\ UNCHANGED <<store, unlinked_prs, unimported_ids, pr_table, last>>
          ELSE LET selected_pr == found[1]
                   r == link_pr_to_task(db, selected_pr.task_code,
                            selected_pr.repo, selected_pr.pr_number,
                            selected_pr.title, selected_pr.body, clock)
               IN /\ LinksWithinBounds(r.db)
                  /\ db' = r.db
                  /\ clock' = clock + 1
                  /\ last' = <<Call("create_pr", selected_pr.task_code,
                                    selected_pr.pr_number, db, r)>>
                  /\ \E cli \in CliOutcomes(Len(open_task_codes(r.db))) :
                       LET sc == scan_for_prs(r.db, remote, cli)
                       IN /\ ShowScan(sc, StatusError)
                          /\ ran' = Ran("link", RowItem(i), TRUE, <<Pass(r.db, cli, sc)>>)
    /\ UNCHANGED <<remote, called, app, tasks_table, gen, log>>

\* action_ignore that persists the dismissal of a Link row: the task of the
\* row is deleted from the store, and both lists are emptied
IgnorePersisted(i) ==
    /\ app = "running"
    /\ i \in 1..Len(pr_table)
    /\ pr_table[i] # NoneText
    /\ LET t == update_pr_table(<<>>, <<>>)
       IN /\ db' = IF RowItem(i).kind = "link"
                   THEN delete_task(db, RowItem(i).task_id).db ELSE db
          /\ unimported_ids' = <<>>
          /\ unlinked_prs' = <<>>
          /\ pr_table' = t.rows
          /\ status' = StatusIgnored
    /\ ran' = Ran("ignore", RowItem(i), TRUE, <<>>)
    /\ UNCHANGED <<clock, app, tasks_table, remote, called, gen, last, log>>

\* action_ignore on an Import row or a Link row: the entries the key names
\* leave their list and the table is built again, outside any try
Ignore(i) ==
    /\ app = "running"
    /\ i \in 1..Len(pr_table)
    /\ pr_table[i] # NoneText
    /\ LET key_str == pr_table[i]
           task_id == RemoveAll(key_str, IMPORT_)
           pr_number == RemoveAll(key_str, PR_)
           OtherId(info) == info.task_id # task_id
           OtherPr(pr) == Str(pr.pr_number) # pr_number
           ids == IF StartsWith(key_str, IMPORT_)
                  THEN SelectSeq(unimported_ids, OtherId) ELSE unimported_ids
           prs == IF ~StartsWith(key_str, IMPORT_) /\ StartsWith(key_str, PR_)
                  THEN SelectSeq(unlinked_prs, OtherPr) ELSE unlinked_prs
           t == update_pr_table(ids, prs)
       IN IF t.raised = NoError
          THEN /\ unimported_ids' = ids
               /\ unlinked_prs' = prs
               /\ pr_table' = t.rows
               /\ status' = StatusIgnored
               /\ UNCHANGED <<app, tasks_table>>
          ELSE Crash(t.raised)
    /\ ran' = Ran("ignore", RowItem(i), TRUE, <<>>)
    /\ UNCHANGED <<store, remote, called, gen, last, log>>

\* ------------------------------------------------------------------------
\* TasksScreen handlers
\* ------------------------------------------------------------------------
\* on_mount: load_tasks, outside any try
TasksMount ==
    /\ app = "running"
    /\ LET t == load_tasks(db)
       IN IF t.raised = NoError
          THEN tasks_table' = t.rows /\ UNCHANGED <<app, inbox>>
          ELSE Crash(t.raised)
    /\ ran' = <<>>
    /\ UNCHANGED <<store, remote, called, gen, last, log>>

\* action_delete on the row of a task: delete_task, then load_tasks when it
\* returned True
Delete(i) ==
    /\ app = "running"
    /\ i \in 1..Len(tasks_table)
    /\ tasks_table[i] # NoneText
    /\ LET task_code == tasks_table[i]
           r == delete_task(db, task_code)
           t == load_tasks(r.db)
       IN /\ db' = r.db
          /\ last' = <<Call("delete_task", task_code, NoneNum, db, r)>>
          /\ IF r.ret
             THEN /\ log' = Append(log, [op |-> "deleted", code |-> task_code])
                  /\ IF t.raised = NoError
                     THEN tasks_table' = t.rows /\ UNCHANGED <<app, inbox>>
                     ELSE Crash(t.raised)
             ELSE UNCHANGED <<screens, log>>
    /\ ran' = <<>>
    /\ UNCHANGED <<clock, remote, called, gen>>

\* ------------------------------------------------------------------------
\* One user, one handler at a time
\* ------------------------------------------------------------------------
Next ==
    \/ Launch
    \/ Generate
    \/ Refresh
    \/ \E i \in 1..Len(pr_table) : NoKeySelected(i)
    \/ \E i \in 1..Len(pr_table) : Import(i)
    \/ \E i \in 1..Len(pr_table) : Link(i)
    \/ \E i \in 1..Len(pr_table) : Ignore(i)
    \/ TasksMount
    \/ \E i \in 1..Len(tasks_table) : Delete(i)

Spec == Init /\ [][Next]_vars

\* ------------------------------------------------------------------------
\* Two callers of IDGenerator.create_task_with_id on one SQLite file: each
\* call is two store operations, generate_next_id and create_task, each in
\* a connection of its own, so the calls of two callers can interleave
\* ------------------------------------------------------------------------
\* task_id = self.generate_next_id()
GenRead(p) ==
    /\ gen[p].pc = "idle"
    /\ gen[p].started < MaxCalls
    /\ gen' = [gen EXCEPT ![p].pc = "insert",
                          ![p].task_id = generate_next_id(db),
                          ![p].started = @ + 1]
    /\ UNCHANGED <<store, remote, called, screens, last, ran, log>>

\* task_data = self.db.create_task(task_id); return task_id, task_data
\* IntegrityError is not caught: the call, and its caller, end with it
GenInsert(p) ==
    /\ gen[p].pc = "insert"
    /\ LET r == create_task(db, gen[p].task_id, clock)
       IN /\ WithinBounds(r.db)
          /\ db' = r.db
          /\ last' = <<Call("create_task", gen[p].task_id, NoneNum, db, r)>>
          /\ IF r.raised = NoError
             THEN /\ clock' = clock + 1
                  /\ log' = Append(log, [op |-> "generated",
                                         code |-> gen[p].task_id])
                  /\ gen' = [gen EXCEPT ![p].pc = "idle",
                                        ![p].returned = Append(@, gen[p].task_id)]
             ELSE /\ gen' = [gen EXCEPT ![p].pc = "raised"]
                  /\ UNCHANGED <<clock, log>>
    /\ UNCHANGED <<remote, called, screens, ran>>

\* the caller that ended with the exception is started again
GenLaunch(p) ==
    /\ gen[p].pc = "raised"
    /\ gen' = [gen EXCEPT ![p].pc = "idle"]
    /\ UNCHANGED <<store, remote, called, screens, last, ran, log>>

NextConc ==
    \/ \E p \in Procs : GenRead(p)
    \/ \E p \in Procs : GenInsert(p)
    \/ \E p \in Procs : GenLaunch(p)
    \/ TasksMount
    \/ \E i \in 1..Len(tasks_table) : Delete(i)

SpecConc == Init /\ [][NextConc]_vars

\* ------------------------------------------------------------------------
\* The store behind TaskManager and IDGenerator, called directly: any caller,
\* any code and any PR number, in any order
\* ------------------------------------------------------------------------
StoreCodes == {Code(1), Code(2)}
StorePrNumbers == {PrFoo.number, PrTwo.number}

\* Database.create_task(code)
StoreCreateTask(code) ==
    /\ LET r == create_task(db, code, clock)
       IN /\ WithinBounds(r.db)
          /\ db' = r.db
          /\ clock' = IF r.raised = NoError THEN clock + 1 ELSE clock
          /\ last' = <<Call("create_task", code, NoneNum, db, r)>>
          /\ log' = IF r.raised = NoError
                    THEN Append(log, [op |-> "imported", code |-> code])
                    ELSE log
    /\ UNCHANGED <<remote, called, screens, gen, ran>>

\* TaskManager.link_pr_to_task(task_code, repo, pr_number, title, body)
StoreLinkPr(task_code, pr_number) ==
    /\ LET r == link_pr_to_task(db, task_code, RepoName, pr_number,
                                PrFoo.title, PrFoo.body, clock)
       IN /\ WithinBounds(r.db)
          /\ db' = r.db
          /\ clock' = clock + 1
          /\ last' = <<Call("create_pr", task_code, pr_number, db, r)>>
    /\ UNCHANGED <<remote, called, screens, gen, ran, log>>

\* TaskManager.delete_task(code)
StoreDeleteTask(code) ==
    /\ LET r == delete_task(db, code)
       IN /\ db' = r.db
          /\ last' = <<Call("delete_task", code, NoneNum, db, r)>>
          /\ log' = IF r.ret
                    THEN Append(log, [op |-> "deleted", code |-> code])
                    ELSE log
    /\ UNCHANGED <<clock, remote, called, screens, gen, ran>>

NextStore ==
    \/ \E code \in StoreCodes : StoreCreateTask(code)
    \/ \E code \in StoreCodes, n \in StorePrNumbers : StoreLinkPr(code, n)
    \/ \E code \in StoreCodes : StoreDeleteTask(code)

SpecStore == Init /\ [][NextStore]_vars

\* ------------------------------------------------------------------------
\* The inbox from the state in which one PR is listed for two task codes.
\* The user has generated tt-1 and tt-2 and then imported tt-10 from a row
\* listed before the two tasks existed; PR #7 is titled 'tt-2 tt-10' and the
\* search for tt-1 finds it too.  The scan that ends the import raises
\* DuplicateKey at the second row of PR #7, the handler catches it, and the
\* table keeps the rows added before.  Only the handlers that create no task
\* run from there.
\* ------------------------------------------------------------------------
InboxRemote == <<PrTwo, PrMerged>>
InboxGenerated == create_task_with_id(create_task_with_id(EmptyDb, 0).db, 1).db
InboxCreated == create_task(InboxGenerated, Code(10), 2)
InboxLinked ==
    link_pr_to_task(InboxCreated.db, Code(10), RepoName, PrTwo.number,
                    PrTwo.title, PrTwo.body, 3)
InboxCli ==
    CHOOSE cli \in CliOutcomes(Len(open_task_codes(InboxLinked.db))) :
        CliAllOk(cli)
InboxScan == scan_for_prs(InboxLinked.db, InboxRemote, InboxCli)

InitInbox ==
    /\ db = InboxLinked.db
    /\ clock = 4
    /\ remote = InboxRemote
    /\ app = "running"
    /\ unlinked_prs = InboxScan.unlinked_prs
    /\ unimported_ids = InboxScan.unimported_ids
    /\ pr_table = InboxScan.rows
    /\ status = StatusErrorImporting
    /\ tasks_table = <<>>
    /\ gen = [p \in Procs |-> [pc |-> "idle", task_id |-> NoneText,
                               started |-> 0, returned |-> <<>>]]
    /\ last = <<Call("create_task", Code(10), NoneNum, InboxGenerated,
                     InboxCreated),
                Call("create_pr", Code(10), PrTwo.number, InboxCreated.db,
                     InboxLinked)>>
    /\ ran = <<>>
    /\ called = <<>>
    /\ log = <<[op |-> "generated", code |-> Code(1)],
               [op |-> "generated", code |-> Code(2)],
               [op |-> "imported", code |-> Code(10)]>>

NextInbox ==
    \/ Refresh
    \/ \E i \in 1..Len(pr_table) : NoKeySelected(i)
    \/ \E i \in 1..Len(pr_table) : Link(i)
    \/ \E i \in 1..Len(pr_table) : Ignore(i)
    \/ TasksMount
    \/ \E i \in 1..Len(tasks_table) : Delete(i)
    \/ Launch

SpecInbox == InitInbox /\ [][NextInbox]_vars

\* ------------------------------------------------------------------------
\* GitHubIntegration called directly: any method, on any listing of at most
\* MaxPrs pull requests, with any result of each gh invocation
\* ------------------------------------------------------------------------
PrSamples == {PrFoo, PrTwo, PrMerged, PrGlued, PrTen}
ScannerListings ==
    {l \in UNION {[1..n -> PrSamples] : n \in 0..MaxPrs} :
        \A i, j \in DOMAIN l : i # j => l[i].number # l[j].number}
ScannerCodes == {Code(1), Code(2), Code(10)}
ScannerCodeLists ==
    {<<>>, <<Code(1)>>, <<Code(2), Code(1)>>, <<Code(1), Code(10)>>}
ScannerPrNumbers == {PrFoo.number, PrMerged.number}

\* the results gh repo view and gh auth status can have, and those of the
\* invocations whose output is parsed as JSON
PlainResults == GhResults \ {PrintedNoJson}
JsonResults == GhResults

InitScanner ==
    /\ db = EmptyDb
    /\ clock = 0
    /\ remote \in ScannerListings
    /\ app = "running"
    /\ unlinked_prs = <<>>
    /\ unimported_ids = <<>>
    /\ pr_table = <<>>
    /\ status = StatusNone
    /\ tasks_table = <<>>
    /\ gen = [p \in Procs |-> [pc |-> "idle", task_id |-> NoneText,
                               started |-> 0, returned |-> <<>>]]
    /\ last = <<>>
    /\ ran = <<>>
    /\ called = <<>>
    /\ log = <<>>

\* the exception that escapes a method: that of the first of its gh
\* invocations, from the i-th on, that raises
RECURSIVE Escaping(_, _)
Escaping(results, i) ==
    IF i > Len(results) THEN NoError
    ELSE IF run_gh_command(results[i]).raised # NoError
         THEN run_gh_command(results[i]).raised
         ELSE Escaping(results, i + 1)

\* one call of a method: its arguments, the results of the gh invocations it
\* made, the exception that escaped it or the value it returned
Called(method, args, results, value) ==
    <<[method |-> method, args |-> args, results |-> results,
       raised |-> Escaping(results, 1),
       value |-> IF Escaping(results, 1) = NoError THEN <<value>> ELSE <<>>]>>

\* the invocations a method makes that starts with get_current_repo: nothing
\* follows a repo view that gave no name
Made(results) ==
    IF get_current_repo(run_gh_command(results[1]).out) = NoneText
    THEN Take(results, 1) ELSE results

CallIsGhAvailable ==
    /\ \E auth \in PlainResults :
          called' = Called("is_gh_available", <<>>, <<auth>>,
                           is_gh_available(run_gh_command(auth).out))
    /\ UNCHANGED <<store, remote, screens, gen, last, ran, log>>

CallGetCurrentRepo ==
    /\ \E view \in PlainResults :
          called' = Called("get_current_repo", <<>>, <<view>>,
                           get_current_repo(run_gh_command(view).out))
    /\ UNCHANGED <<store, remote, screens, gen, last, ran, log>>

\* find_prs_with_task_id(task_id, repo), repo given or None
CallFindPrsWithTaskId(task_id, given) ==
    /\ \E view \in PlainResults, list \in JsonResults :
          LET repo == IF given THEN RepoName
                      ELSE get_current_repo(run_gh_command(view).out)
              results == IF given THEN <<list>> ELSE Made(<<view, list>>)
          IN called' = Called("find_prs_with_task_id", <<task_id, given>>, results,
                              find_prs_with_task_id(remote, task_id, repo,
                                                    run_gh_command(list).out))
    /\ UNCHANGED <<store, remote, screens, gen, last, ran, log>>

\* get_pr_details(pr_number, repo), repo given or None
CallGetPrDetails(pr_number, given) ==
    /\ \E view \in PlainResults, pr_view \in JsonResults :
          LET repo == IF given THEN RepoName
                      ELSE get_current_repo(run_gh_command(view).out)
              results == IF given THEN <<pr_view>> ELSE Made(<<view, pr_view>>)
          IN /\ pr_view = Printed => HasNumber(remote, pr_number) # {}
             /\ called' = Called("get_pr_details", <<pr_number, given>>, results,
                                 get_pr_details(remote, pr_number, repo,
                                                run_gh_command(pr_view).out))
    /\ UNCHANGED <<store, remote, screens, gen, last, ran, log>>

CallFindUnlinkedPrs(existing_task_codes) ==
    /\ \E view \in PlainResults,
          lists \in [1..Len(existing_task_codes) -> JsonResults] :
          LET cli == [repo_unlinked |-> run_gh_command(view).out,
                      lists |-> [i \in DOMAIN lists |->
                                    run_gh_command(lists[i]).out]]
          IN called' = Called("find_unlinked_prs", <<existing_task_codes>>,
                              Made(<<view>> \o lists),
                              find_unlinked_prs(remote, existing_task_codes, cli))
    /\ UNCHANGED <<store, remote, screens, gen, last, ran, log>>

CallFindAllTaskIdsInRepo ==
    /\ \E view \in PlainResults, list \in JsonResults :
          LET cli == [repo_all |-> run_gh_command(view).out,
                      list_all |-> run_gh_command(list).out]
          IN called' = Called("find_all_task_ids_in_repo", <<>>,
                              Made(<<view, list>>),
                              find_all_task_ids_in_repo(remote, cli))
    /\ UNCHANGED <<store, remote, screens, gen, last, ran, log>>

NextScanner ==
    \/ CallIsGhAvailable
    \/ CallGetCurrentRepo
    \/ \E task_id \in ScannerCodes, given \in BOOLEAN :
          CallFindPrsWithTaskId(task_id, given)
    \/ \E pr_number \in ScannerPrNumbers, given \in BOOLEAN :
          CallGetPrDetails(pr_number, given)
    \/ \E codes \in ScannerCodeLists : CallFindUnlinkedPrs(codes)
    \/ CallFindAllTaskIdsInRepo

SpecScanner == InitScanner /\ [][NextScanner]_vars

\* ------------------------------------------------------------------------
\* Properties
\* ------------------------------------------------------------------------
IsGenerated(e) == e.op = "generated"
IsCreation(e) == e.op \in {"generated", "imported"}

\* the codes create_task_with_id has returned, in order
Returned == SelectSeq(log, IsGenerated)

\* the store calls of the last handler that were op
CallsOf(op) == {k \in 1..Len(last) : last[k].op = op}

\* C1: a code returned by create_task_with_id has never been returned by an
\* earlier create_task_with_id call, also when the task that held it has
\* been deleted since.
C1_NoCodeReturnedTwice ==
    \A i, j \in 1..Len(Returned) :
        i < j => Returned[i].code # Returned[j].code

\* C2: from the empty store, N calls of create_task_with_id with no deletion
\* and no import in between all return, and they return tt-1, ..., tt-N in
\* that order.
C2_CreationsCountUp ==
    (\A k \in 1..Len(log) : log[k].op = "generated") =>
        /\ \A k \in 1..Len(log) : log[k].code = Code(k)
        /\ \A k \in CallsOf("create_task_with_id") : last[k].raised = NoError

C2_Witness ==
    /\ Len(log) >= 2
    /\ \A k \in 1..Len(log) : log[k].op = "generated"

\* C3: get_next_task_number returns 1 when no task exists and otherwise the
\* greatest numeric suffix among the codes of the existing tasks plus one.
C3_NextIsMaxSuffixPlusOne ==
    get_next_task_number(db) =
        IF db.tasks = {} THEN 1 ELSE Max({Num(t.code) : t \in db.tasks}) + 1

\* C4: every code returned by create_task_with_id has a numeric suffix
\* greater than the suffix of every code assigned to a task before it,
\* generated or imported.
C4_GeneratedAboveAllEarlier ==
    \A i, j \in 1..Len(log) :
        (i < j /\ IsCreation(log[i]) /\ IsGenerated(log[j])) =>
            Num(log[j].code) > Num(log[i].code)

\* C5: when two create_task_with_id calls both read the next number before
\* either inserts, the store never holds two tasks with one code and the
\* task that is there is not overwritten: the insert of a code that is
\* present raises the duplicate-key error and leaves the store as it was.
C5_SecondInsertFails ==
    /\ \A t, u \in db.tasks : t.code = u.code => t = u
    /\ \A k \in CallsOf("create_task") :
          TaskRows(last[k].pre, last[k].code) # {} =>
              /\ last[k].raised = IntegrityError
              /\ last[k].post = last[k].pre

C5_Witness ==
    \E p, q \in Procs :
        /\ p # q
        /\ gen[p].pc = "raised"
        /\ \E k \in 1..Len(gen[q].returned) : gen[q].returned[k] = gen[p].task_id
        /\ last[1].raised = IntegrityError

\* C6: a create_task_with_id call whose insert hits a duplicate key is
\* retried with a fresh number, so every call that has ended has returned
\* the code of a task it created.
C6_EveryCallReturnsACode ==
    \A p \in Procs :
        gen[p].pc # "insert" => Len(gen[p].returned) = gen[p].started

\* C7: linking a PR to a code that has no task raises and writes nothing.
C7_LinkToMissingTaskFails ==
    \A k \in CallsOf("create_pr") :
        TaskRows(last[k].pre, last[k].code) = {} =>
            /\ last[k].raised # NoError
            /\ last[k].post = last[k].pre

\* C8: every PR link's task_code is the code of a task of the store.
C8_NoOrphanedLinks ==
    \A p \in db.prs : TaskRows(db, p.task_code) # {}

\* C9: a task's status is 'linked' if and only if at least one PR link
\* references its code.
C9_LinkedIffHasLink ==
    \A t \in db.tasks :
        t.status = "linked" <=> get_prs_for_task(db, t.code) # {}

\* C10: linking a PR to a task that exists with status 'open' adds one PR
\* link for it and leaves it 'linked' in the store the call commits, which
\* is what get_task reads afterwards.
C10_LinkSetsLinked ==
    \A k \in CallsOf("create_pr") :
        (\E t \in TaskRows(last[k].pre, last[k].code) : t.status = "open") =>
            /\ last[k].raised = NoError
            /\ Cardinality(get_prs_for_task(last[k].post, last[k].code))
                 = Cardinality(get_prs_for_task(last[k].pre, last[k].code)) + 1
            /\ \E p \in last[k].post.prs \ last[k].pre.prs :
                  p.task_code = last[k].code /\ p.pr_number = last[k].pr_number
            /\ get_task_by_code(last[k].post, last[k].code) # {}
            /\ \A t \in get_task_by_code(last[k].post, last[k].code) :
                  t.status = "linked"

C10_Witness ==
    \E k \in CallsOf("create_pr") :
        /\ \E t \in TaskRows(last[k].pre, last[k].code) : t.status = "open"
        /\ last[k].post = db

\* C11: after delete_task(c) has returned True the store it committed holds
\* no task c and no PR link of c, however many links c had: the task and
\* its links leave in the one commit of the call.
C11_DeleteRemovesTaskAndLinks ==
    \A k \in CallsOf("delete_task") :
        last[k].ret = TRUE =>
            /\ last[k].post = db
            /\ get_task_by_code(db, last[k].code) = {}
            /\ get_prs_for_task(db, last[k].code) = {}
            /\ db.tasks = {t \in last[k].pre.tasks : t.code # last[k].code}
            /\ db.prs = {p \in last[k].pre.prs : p.task_code # last[k].code}

C11_Witness ==
    \E k \in CallsOf("delete_task") :
        /\ last[k].ret = TRUE
        /\ Cardinality(get_prs_for_task(last[k].pre, last[k].code)) = 2
        /\ last[k].post = db

\* C12: delete_task(c) for a code that has no task returns False, does not
\* raise and leaves the store as it was, PR rows of c included; so does a
\* second delete_task(c) after one that returned True.
C12_DeleteOfMissingTaskIsNoOp ==
    \A k \in CallsOf("delete_task") :
        TaskRows(last[k].pre, last[k].code) = {} =>
            /\ last[k].ret = FALSE
            /\ last[k].raised = NoError
            /\ last[k].post = last[k].pre
            /\ db = last[k].pre

C12_Witness ==
    \E k \in CallsOf("delete_task") :
        /\ last[k].ret = FALSE
        /\ get_prs_for_task(last[k].pre, last[k].code) # {}
        /\ Len(log) > 0
        /\ log[Len(log)] = [op |-> "deleted", code |-> last[k].code]

\* C13: create_task(c) on a store without a task c adds one task, with code
\* c and status 'open', and nothing else; on a store with a task c it
\* raises the duplicate-key error and the store stays as it was, the task's
\* status, creation time and PR links included.
C13_CreateTaskOpenOrDuplicate ==
    \A k \in CallsOf("create_task") :
        LET pre == last[k].pre
            post == last[k].post
            c == last[k].code
        IN IF TaskRows(pre, c) = {}
           THEN /\ last[k].raised = NoError
                /\ \E t \in post.tasks :
                      /\ t.code = c /\ t.status = "open"
                      /\ post.tasks = pre.tasks \cup {t}
                      /\ t \notin pre.tasks
                /\ post.prs = pre.prs
           ELSE /\ last[k].raised = IntegrityError
                /\ post = pre
                /\ db = pre

C13_Witness ==
    \E k \in CallsOf("create_task") :
        /\ last[k].raised = IntegrityError
        /\ \E t \in TaskRows(db, last[k].code) :
              t.status = "linked" /\ get_prs_for_task(db, t.code) # {}

\* C14: a task that is 'linked' and is still in the store after a step of
\* the screens (the same row of tasks, by its row id) is 'linked' after it.
C14_LinkedNeverReopens ==
    [][\A t \in db.tasks :
          t.status = "linked" =>
              \A u \in db'.tasks : u.id = t.id => u.status = "linked"]_vars

C14_Witness ==
    \E k \in CallsOf("create_pr") :
        \E t \in last[k].pre.tasks :
            /\ t.status = "linked"
            /\ t.code # last[k].code
            /\ t \in db.tasks

\* C15: no two PR links have the same repo and the same pr_number.
C15_PrNumberUniqueInRepo ==
    \A p, q \in db.prs :
        (p.repo = q.repo /\ p.pr_number = q.pr_number) => p = q

\* the sync pass of the inbox handler that ran last, when it ran one
HasPass == ran # <<>> /\ ran[1].pass # <<>>
LastPass == ran[1].pass[1]

\* the pass returned: update_pr_table raised nothing
Completed == HasPass /\ LastPass.raised = NoError

\* text contains code as a substring, letter case ignored
Folded(text) == [i \in 1..Len(text) |-> Lower(text[i])]
Contains(text, code) ==
    \E i \in 0..(Len(text) - Len(code)) :
        SubSeq(Folded(text), i + 1, i + Len(code)) = Folded(code)

\* the pairs of a local 'open' task and a remote open PR whose branch name
\* or title contains the task's code
OpenMatches ==
    {<<t.code, remote[i].number>> :
        <<t, i>> \in {ti \in db.tasks \X DOMAIN remote :
                        /\ ti[1].status = "open"
                        /\ remote[ti[2]].state = "open"
                        /\ \/ Contains(remote[ti[2]].headRefName, ti[1].code)
                           \/ Contains(remote[ti[2]].title, ti[1].code)}}

\* unlinked_prs has exactly one entry per pair of OpenMatches and no other
UnlinkedIsOpenMatches ==
    /\ \A k \in 1..Len(unlinked_prs) :
          <<unlinked_prs[k].task_code, unlinked_prs[k].pr_number>> \in OpenMatches
    /\ \A m \in OpenMatches :
          Cardinality({k \in 1..Len(unlinked_prs) :
                          /\ unlinked_prs[k].task_code = m[1]
                          /\ unlinked_prs[k].pr_number = m[2]}) = 1

\* C16: a sync pass whose availability check fails ends with both lists
\* empty and the 'not available' status, has made no gh invocation after
\* the check and leaves the store as it was, whatever the lists held before.
C16_UnavailableShortCircuits ==
    (HasPass /\ ~LastPass.available) =>
        /\ unlinked_prs = <<>>
        /\ unimported_ids = <<>>
        /\ status = StatusUnavailable
        /\ pr_table = <<NoneText>>
        /\ LastPass.calls = <<GhAuthStatus>>
        /\ LastPass.raised = NoError
        /\ db = LastPass.db
        /\ app = "running"

C16_Witness ==
    /\ HasPass
    /\ ~LastPass.available
    /\ LastPass.before
    /\ ran[1].handler = "refresh"

C18_UnimportedIsFoundMinusLocal ==
    Completed =>
        LET NotLocal(info) == \A t \in db.tasks : t.code # info.task_id
        IN /\ unimported_ids = SelectSeq(LastPass.all_ids_in_repo, NotLocal)
           /\ \A k \in 1..Len(unimported_ids) :
                 get_task_by_code(db, unimported_ids[k].task_id) = {}

C18_Witness ==
    /\ Completed
    /\ Len(unimported_ids) > 0
    /\ \E k \in 1..Len(LastPass.all_ids_in_repo) :
          \E t \in db.tasks :
              t.code = LastPass.all_ids_in_repo[k].task_id /\ t.status = "linked"

\* C19: every link action and every import action on a selected item runs a
\* sync pass, and after the action the two lists are what a pass over the
\* store and the remote state of that moment computes.
C19_ActionIsFollowedByFreshPass ==
    (ran # <<>> /\ ran[1].handler \in {"import", "link"}) =>
        /\ HasPass
        /\ LastPass.all_ok =>
              LET ok == CHOOSE cli \in CliOutcomes(Len(open_task_codes(db))) :
                            CliAllOk(cli)
                  fresh == scan_for_prs(db, remote, ok)
              IN /\ unlinked_prs = fresh.unlinked_prs
                 /\ unimported_ids = fresh.unimported_ids

\* C20: an import action on an item whose code has a task by now does not
\* end the application: it shows the error status, adds no PR link and
\* leaves the store, the task's status and links included, as it was.
C20_ImportOfExistingCodeFailsSoftly ==
    (/\ ran # <<>> /\ ran[1].handler = "import" /\ ran[1].found
     /\ TaskRows(last[1].pre, last[1].code) # {}) =>
        /\ app = "running"
        /\ status = StatusErrorImporting
        /\ Len(last) = 1
        /\ last[1].op = "create_task"
        /\ last[1].raised = IntegrityError
        /\ db = last[1].pre

C20_Witness ==
    /\ ran # <<>> /\ ran[1].handler = "import" /\ ran[1].found
    /\ \E t \in TaskRows(last[1].pre, last[1].code) : t \in db.tasks
    /\ status = StatusErrorImporting

\* the table shows the entries of the two lists in order, up to the row
\* whose key the table held already, or the one row without key
TableShowsLists ==
    \/ pr_table = <<NoneText>> /\ unlinked_prs = <<>> /\ unimported_ids = <<>>
    \/ LET keys == ImportKeys(unimported_ids) \o LinkKeys(unlinked_prs)
       IN Len(pr_table) <= Len(keys) /\ pr_table = SubSeq(keys, 1, Len(pr_table))

\* C21: an import of a reference whose code has no local task creates the
\* task with that code, 'open'; when the reference carries a PR number the
\* action then adds one PR link for the code and the task is 'linked' when
\* the action ends, otherwise the task stays 'open' and no link is added.
C21_ImportCreatesThenLinks ==
    (/\ ran # <<>> /\ ran[1].handler = "import" /\ ran[1].found
     /\ TaskRows(last[1].pre, last[1].code) = {}) =>
        LET c == last[1].code
            pre == last[1].pre
        IN /\ TableShowsLists
           /\ c = ran[1].item.task_id
           /\ last[1].op = "create_task" /\ last[1].raised = NoError
           /\ \E t \in last[1].post.tasks :
                 /\ t.code = c /\ t.status = "open"
                 /\ last[1].post.tasks = pre.tasks \cup {t}
           /\ IF ran[1].item.pr_number > 0
              THEN /\ Len(last) = 2 /\ last[2].op = "create_pr"
                   /\ last[2].code = c
                   /\ last[2].pr_number = ran[1].item.pr_number
                   /\ Cardinality(get_prs_for_task(db, c))
                        = Cardinality(get_prs_for_task(pre, c)) + 1
                   /\ \A t \in TaskRows(db, c) : t.status = "linked"
              ELSE /\ Len(last) = 1
                   /\ db.prs = pre.prs
                   /\ \A t \in TaskRows(db, c) : t.status = "open"
           /\ Cardinality(TaskRows(db, c)) = 1
           /\ \A t \in db.tasks : t.code # c => t \in pre.tasks

C21_Witness ==
    /\ ran # <<>> /\ ran[1].handler = "import" /\ ran[1].found
    /\ TaskRows(last[1].pre, last[1].code) = {}
    /\ ran[1].item.pr_number > 0
    /\ \E t \in TaskRows(db, last[1].code) : t.status = "linked"

\* text contains the token tt-n of code as a whole word, letter case ignored
Mentions(text, code) ==
    \E i \in 0..(Len(text) - Len(code)) :
        /\ SubSeq(Folded(text), i + 1, i + Len(code)) = Folded(code)
        /\ i = 0 \/ ~IsWordChar(text[i])
        /\ i + Len(code) = Len(text) \/ ~IsWordChar(text[i + Len(code) + 1])

\* some remote PR, open or not, mentions code in its branch name or title
MentionedInRemote(code) ==
    \E i \in DOMAIN remote :
        Mentions(remote[i].headRefName, code) \/ Mentions(remote[i].title, code)

\* a pass over store D in which every gh invocation succeeds
FreshScan(D) ==
    scan_for_prs(D, remote,
                 CHOOSE cli \in CliOutcomes(Len(open_task_codes(D))) : CliAllOk(cli))

\* the lists of the pass sc hold the item
Listed(item, sc) ==
    IF item.kind = "import"
    THEN \E k \in 1..Len(sc.unimported_ids) :
            sc.unimported_ids[k].task_id = item.task_id
    ELSE \E k \in 1..Len(sc.unlinked_prs) :
            /\ sc.unlinked_prs[k].task_code = item.task_id
            /\ sc.unlinked_prs[k].pr_number = item.pr_number

\* the store and the remote state give rise to the item: an Import item
\* whose code is mentioned remotely and has no local task, a Link item
\* whose task is 'open' and whose PR is open and contains its code
StillArises(item) ==
    IF item.kind = "import"
    THEN get_task_by_code(db, item.task_id) = {} /\ MentionedInRemote(item.task_id)
    ELSE <<item.task_id, item.pr_number>> \in OpenMatches

IgnoreStep == ran' # <<>> /\ ran'[1].handler = "ignore"

WasCalled(method) == called # <<>> /\ called[1].method = method
Value == called[1].value[1]
SomeFailure ==
    \E i \in DOMAIN called[1].results : called[1].results[i] # Printed

\* what the method called last returns when a gh invocation of its own fails:
\* False, None, an empty list; find_unlinked_prs, which goes on after a pr
\* list that failed, has no entry for the code of that pr list
Degraded ==
    CASE WasCalled("is_gh_available") -> Value = FALSE
      [] WasCalled("get_current_repo") -> Value = NoneText
      [] WasCalled("get_pr_details") -> Value = {}
      [] WasCalled("find_prs_with_task_id") -> Value = <<>>
      [] WasCalled("find_all_task_ids_in_repo") -> Value = <<>>
      [] WasCalled("find_unlinked_prs") ->
            LET codes == called[1].args[1]
                results == called[1].results
            IN /\ results[1] # Printed => Value = <<>>
               /\ \A i \in 2..Len(results) :
                     results[i] # Printed =>
                        \A k \in 1..Len(Value) :
                            Value[k].task_code # codes[i - 1]

C24_ReportsOnlyWholeWordTokens ==
    WasCalled("find_all_task_ids_in_repo") =>
        \A k \in 1..Len(Value) : MentionedInRemote(Value[k].task_id)

C24_Witness ==
    /\ WasCalled("find_all_task_ids_in_repo")
    /\ remote = <<PrGlued, PrTwo>>
    /\ \E k \in 1..Len(Value) : Value[k].task_id = Code(10)
    /\ \A k \in 1..Len(Value) : Value[k].task_id # Code(1)

\* the position in the listing of the first PR, open or not, whose branch
\* name or title mentions code
MentionedBy(code) ==
    {i \in DOMAIN remote :
        Mentions(remote[i].headRefName, code) \/ Mentions(remote[i].title, code)}
FirstMention(code) ==
    CHOOSE i \in MentionedBy(code) : \A j \in MentionedBy(code) : i <= j

\* C25: the list find_all_task_ids_in_repo returns has at most one entry per
\* task ID, each entry carries the first PR of the listing that mentions the
\* ID, and the entries are in ascending order of numeric suffix.
C25_OneEntryPerIdFirstPrSorted ==
    WasCalled("find_all_task_ids_in_repo") =>
        /\ \A j, k \in 1..Len(Value) :
              j # k => Value[j].task_id # Value[k].task_id
        /\ \A k \in 1..Len(Value) :
              /\ MentionedBy(Value[k].task_id) # {}
              /\ LET pr == remote[FirstMention(Value[k].task_id)]
                 IN /\ Value[k].pr_number = pr.number
                    /\ Value[k].branch = pr.headRefName
                    /\ Value[k].title = pr.title
        /\ \A j, k \in 1..Len(Value) :
              j < k => Num(Value[j].task_id) <= Num(Value[k].task_id)

C25_Witness ==
    /\ WasCalled("find_all_task_ids_in_repo")
    /\ remote = <<PrTen, PrMerged>>
    /\ [k \in 1..Len(Value) |-> Value[k].task_id] = <<Code(1), Code(2), Code(10)>>
    /\ \A k \in 1..Len(Value) : Value[k].pr_number = PrTen.number

\* C26: get_all_tasks returns exactly one entry per stored task, joined with
\* one of its PR links or with none, in descending order of id, also when a
\* task has more than one PR link.
C26_OneEntryPerTaskNewestFirst ==
    LET tasks == get_all_tasks(db)
    IN /\ Len(tasks) = Cardinality(db.tasks)
       /\ \A t \in db.tasks : \E k \in 1..Len(tasks) :
             /\ tasks[k].id = t.id /\ tasks[k].code = t.code
             /\ tasks[k].status = t.status
             /\ \/ tasks[k].pr_number = NoneNum
                \/ \E p \in get_prs_for_task(db, t.code) :
                      p.pr_number = tasks[k].pr_number
       /\ \A j, k \in 1..Len(tasks) : j < k => tasks[j].id > tasks[k].id

\* C27: a sync pass that finds gh available, no local task and no remote PR
\* ends with both lists empty and the 'All synced' status.
C27_NothingLocalNothingRemoteIsAllSynced ==
    (HasPass /\ LastPass.available /\ LastPass.db.tasks = {} /\ remote = <<>>) =>
        /\ LastPass.raised = NoError
        /\ unlinked_prs = <<>>
        /\ unimported_ids = <<>>
        /\ status = StatusAllSynced

C27_Witness ==
    /\ HasPass /\ LastPass.available
    /\ LastPass.db.tasks = {} /\ remote = <<>>
    /\ ran[1].handler = "refresh"
    /\ ~LastPass.all_ok
    /\ status = StatusAllSynced /\ pr_table = <<NoneText>>

\* the handler of this step called delete_task(code) on the store as it was
DeletesCode(code) ==
    \E k \in 1..Len(last') :
        /\ last'[k].op = "delete_task"
        /\ last'[k].pre = db
        /\ last'[k].code = code

\* C28: a PR link that exists is in the store unchanged after every step
\* unless the step is delete_task of the link's own task code; scans and
\* ignore leave the store as it is; create_pr and delete_task on a code leave
\* the row of every task of another code as it was.
C28_LinksAndOtherTasksAreFramed ==
    [][/\ \A p \in db.prs : p \in db'.prs \/ DeletesCode(p.task_code)
       /\ (ran' # <<>> /\ ran'[1].handler \in {"refresh", "ignore"}) => db' = db
       /\ \A k \in 1..Len(last') :
             last'[k].op \in {"create_pr", "delete_task"} =>
                \A t \in last'[k].pre.tasks :
                    t.code # last'[k].code => t \in last'[k].post.tasks]_vars

C28_Witness ==
    /\ last # <<>>
    /\ last[1].op = "delete_task" /\ last[1].ret
    /\ db = last[1].post
    /\ last[1].pre.prs # {}
    /\ db.prs = last[1].pre.prs
    /\ \E t \in db.tasks : t.status = "linked"

\* C29: with one caller at a time, the code create_task_with_id computes is
\* never the code of a task in the store, so its INSERT never fails on the
\* UNIQUE constraint, in every store reached by generated creations, imports,
\* links and deletions.
C29_NextCodeIsFree ==
    /\ TaskRows(db, generate_next_id(db)) = {}
    /\ create_task_with_id(db, clock).raised = NoError

\* C30: a link action on a Link row whose PR is found links that PR to the
\* task code the row shows, also when unlinked_prs holds the PR number for
\* another task code as well.
C30_LinkGoesToTheCodeOfTheRow ==
    (ran # <<>> /\ ran[1].handler = "link" /\ ran[1].found) =>
        /\ Len(last) = 1
        /\ last[1].op = "create_pr"
        /\ last[1].code = ran[1].item.task_id
        /\ last[1].pr_number = ran[1].item.pr_number
        /\ \E p \in db.prs :
              /\ p.task_code = ran[1].item.task_id
              /\ p.pr_number = ran[1].item.pr_number

C30_Witness ==
    /\ ran # <<>> /\ ran[1].handler = "link" /\ ran[1].found
    /\ ran[1].item.shared
    /\ last[1].op = "create_pr"
    /\ \E t \in db.tasks : t.code = ran[1].item.task_id /\ t.status = "linked"

\* C31: an ignore action that leaves the application running removes the
\* item of the selected row from the two lists and nothing else; an entry of
\* unlinked_prs for the same PR number under another task code stays.
C31_IgnoreRemovesOnlyTheSelectedItem ==
    [][(IgnoreStep /\ app' = "running") =>
          LET item == ran'[1].item
              OtherId(info) == info.task_id # item.task_id
              OtherLink(pr) ==
                  pr.task_code # item.task_id \/ pr.pr_number # item.pr_number
          IN IF item.kind = "import"
             THEN /\ unimported_ids' = SelectSeq(unimported_ids, OtherId)
                  /\ unlinked_prs' = unlinked_prs
             ELSE /\ unimported_ids' = unimported_ids
                  /\ unlinked_prs' = SelectSeq(unlinked_prs, OtherLink)]_vars

\* C32: whatever the user does on the screens, every task has at most one PR
\* link.
C32_AtMostOneLinkPerTask ==
    \A t \in db.tasks : Cardinality(get_prs_for_task(db, t.code)) <= 1

\* C33: when a sync pass that found gh available ends with the 'All synced'
\* status, no local 'open' task is referenced by an open remote PR and every
\* task ID the remote PRs mention is the code of a local task, also when a
\* gh invocation after the availability check failed.
C33_AllSyncedMeansNothingPending ==
    (Completed /\ LastPass.available /\ status = StatusAllSynced) =>
        /\ OpenMatches = {}
        /\ \A code \in ScannerCodes :
              MentionedInRemote(code) => get_task_by_code(db, code) # {}

====
